---- MODULE Spec2Model ----
(***************************************************************************)
(* Model of the stepper driver (src/src/stepper_driver.cpp) and of the     *)
(* momentary button (src/src/momentary_button.cpp).                        *)
(*                                                                         *)
(* Every member field and every function-level static of the two classes   *)
(* is a variable.  One action models one public call, including every call *)
(* it makes.  The microsecond and millisecond counters are counters modulo  *)
(* ClockMod (2^32 in the program); values that the code keeps in a uint64_t *)
(* are computed modulo WideMod (2^64 in the program).                       *)
(***************************************************************************)
EXTENDS Integers, FiniteSets, Sequences, TLC

\* ------------------------------------------------------------------ bounds
MaxPos == 1
\* The busy waits set by set_pul_delay_us, set_dir_delay_us and set_ena_delay_us,
\* in microseconds.
PulDelay == 1
DirDelay == 1
EnaDelay == 1

PosRange == (0 - MaxPos)..MaxPos
\* Requested angles, in half microsteps (the angle is a float in the code).
HalfAngles == (0 - 2 * MaxPos)..(2 * MaxPos)
\* SetSpeed inputs, in microsteps per second: periods 0 and 2 us.
Speeds == {0, 500000}
\* SetAcceleration inputs, in thousandths of a microstep per second per second.
AccelerationsMilli == {0, 125}
MaxPeriod == 1000000 \div 500000
\* The counters of micros() and millis() wrap at ClockMod (2^32 in the program),
\* scaled to twice the longest period.
ClockMod == 2 * MaxPeriod
\* uint64_t arithmetic wraps at the square of the 32 bit modulus.
WideMod == ClockMod * ClockMod
\* The elapsed-time observers saturate above every period.
SinceCap == MaxPeriod + 1
\* The pulse total of an observed move saturates above every distance.
TotalCap == 2 * MaxPos + 1

\* Longest debounce period, in milliseconds.
MaxDebounce == 1
\* The press counter is kept below MaxPresses.
MaxPresses == 3
\* The counter of millis() wraps at MillisMod (2^32 in the program), scaled to
\* twice the longest press that is observed.
MillisMod == 2 * (MaxDebounce + 3)
\* The observers of true time in milliseconds saturate above every period.
MillisCap == 2 * MaxDebounce + 4

MotionTypes == {"StopAndReset", "Pause", "Resume", "Absolute", "Relative"}
Directions == {"Negative", "Neutral", "Positive"}

Abs(x) == IF x < 0 THEN 0 - x ELSE x
Min2(a, b) == IF a < b THEN a ELSE b

\* ------------------------------------------------------------- the state
VARIABLES
  \* StepperDriver member fields
  power_state_,                          \* "Enabled" | "Disabled"
  microstep_period_us_,                  \* 0 = zero speed
  speed_period_us_,                      \* 0 = no ramp
  relative_microsteps_to_move_,          \* distance-to-go
  angular_position_microsteps_,
  angular_position_updater_microsteps_,  \* added to the position on each pulse
  \* function-level statics of MoveByAngle, MoveByJogging, MoveByMicrostepAtMicrostepPeriod
  microsteps_after_acceleration,
  microsteps_after_constant_speed,
  motion_status,
  set_direction,
  reference_microstep_time_us,           \* -1: the static is not yet initialised
  \* environment
  dir_pin,                               \* level last written to the direction pin
  now_us,                                \* micros()
  \* observers
  call,          \* the poll made by the last step, its request, and whether a move was in progress
  pulsed,        \* the last step toggled the pulse pin
  pulse_gap,     \* true time from the previous pulse to the check that allowed this one; -1: none
  since_pulse,   \* true time since the previous pulse, saturating; -1: no pulse yet; -2: not observed
  pulse_total,   \* pulses emitted in the observed move; -1: no move is observed
  obs_start,     \* position at which the observed move starts
  obs_target,    \* target of the observed move
  paused_at,     \* distance-to-go before the first Pause poll; -1: none yet
  resumed_at,    \* distance-to-go before the first Resume poll after it; -1: none yet
  \* MomentaryButton member fields
  unpressed_pin_state_,
  debounce_period_,
  multiple_press_period_,
  long_press_period_,
  \* function-level statics of IsPressed
  press_counter,
  long_press,
  waiting_for_long_press,
  waiting_for_press,
  waiting_for_release,
  debouncing,
  previous_button_press_time,            \* -1: the static is not yet initialised
  \* function-level statics of DetectButtonStateChange
  debounce_status,
  debouncing_a_press,
  \* function-level statics of DebounceButton
  status,
  reference_debounce_time,               \* -1: the static is not yet initialised
  \* environment
  gpio_level,                            \* level of the button pin
  now_ms,                                \* millis()
  \* observers
  press_type_out,      \* value returned by the last IsPressed
  press_count_output,  \* count written by the last IsPressed
  button_state_out,    \* value returned by the last DetectButtonStateChange
  finish_gap,    \* true time between this 'finished' report and the previous one; -1: none in this step
  since_finish,  \* true time since the last 'finished' report, saturating; -1: none yet
  hold_ms,       \* how long the pin has been pressed, saturating; -1: never pressed
  release_ms,    \* how long the pin has been unpressed since the last press, saturating; -1: pressed or never pressed
  hold_at_release,  \* hold_ms when the pin was last released
  unpolled,      \* a millisecond passed without an IsPressed poll since the last press began
  polled,        \* IsPressed was polled since the last millisecond tick
  long_returns,  \* LongPress results since the last press began, saturating at 2
  single_returns, \* SinglePress results since the last press began, saturating at 2
  burst,         \* presses of the current burst, each begun within the multiple press window of the one before; -1: not observed
  multiple_returns, \* MultiplePress results with the count of the burst, since the burst began, saturating at 2
  balance,       \* Pressed results less Released results of DetectButtonStateChange, kept within -1..2
  changes        \* Pressed and Released results of DetectButtonStateChange, saturating at 3

driverVars ==
  << power_state_, microstep_period_us_, speed_period_us_, relative_microsteps_to_move_,
     angular_position_microsteps_, angular_position_updater_microsteps_,
     microsteps_after_acceleration, microsteps_after_constant_speed, motion_status,
     set_direction, reference_microstep_time_us, dir_pin, now_us,
     call, pulsed, pulse_gap, since_pulse, pulse_total, obs_start, obs_target,
     paused_at, resumed_at >>

buttonVars ==
  << unpressed_pin_state_, debounce_period_, multiple_press_period_, long_press_period_,
     press_counter, long_press, waiting_for_long_press, waiting_for_press,
     waiting_for_release, debouncing, previous_button_press_time,
     debounce_status, debouncing_a_press, status, reference_debounce_time,
     gpio_level, now_ms, press_type_out, press_count_output, button_state_out,
     finish_gap, since_finish, hold_ms, release_ms, hold_at_release, unpolled, polled,
     long_returns, single_returns, burst, multiple_returns, balance, changes >>

vars == << driverVars, buttonVars >>

\* ====================================================== stepper driver
\* The driver's fields and statics as one record, so that a call and the
\* calls it makes compose as functions.  pulsed and pulse_gap start each
\* call cleared.
DriverState ==
  [ power_state_ |-> power_state_,
    microstep_period_us_ |-> microstep_period_us_,
    speed_period_us_ |-> speed_period_us_,
    relative_microsteps_to_move_ |-> relative_microsteps_to_move_,
    angular_position_microsteps_ |-> angular_position_microsteps_,
    angular_position_updater_microsteps_ |-> angular_position_updater_microsteps_,
    microsteps_after_acceleration |-> microsteps_after_acceleration,
    microsteps_after_constant_speed |-> microsteps_after_constant_speed,
    motion_status |-> motion_status,
    set_direction |-> set_direction,
    reference_microstep_time_us |-> reference_microstep_time_us,
    dir_pin |-> dir_pin,
    now_us |-> now_us,
    pulsed |-> FALSE,
    pulse_gap |-> -1,
    since_pulse |-> since_pulse,
    pulse_total |-> pulse_total,
    paused_at |-> paused_at,
    resumed_at |-> resumed_at ]

\* micros() advancing by d microseconds, and the observers of true time with it.
Elapse(s, d) ==
  [s EXCEPT !.now_us = (s.now_us + d) % ClockMod,
            !.since_pulse = IF s.since_pulse < 0 THEN s.since_pulse
                            ELSE Min2(s.since_pulse + d, SinceCap)]

\* delayMicroseconds(d): a busy wait.
delayMicroseconds(s, d) == Elapse(s, d)

\* round() of an angle given in half microsteps: halves round away from zero.
Round(h) == IF h >= 0 THEN (h + 1) \div 2 ELSE 0 - ((1 - h) \div 2)

\* Conversion of a double to int64_t: truncation toward zero.
Truncate(h) == IF h >= 0 THEN h \div 2 ELSE 0 - ((0 - h) \div 2)

\* The signed distance of a request (angle units: microsteps).
RelativeAngleMicrosteps(s, angle_h, motion_type) ==
  CASE motion_type = "Absolute" -> Round(angle_h) - s.angular_position_microsteps_
    [] motion_type = "Relative" -> Truncate(angle_h)
    [] OTHER -> 0

\* CalculateRelativeMicrostepsToMoveByAngle with CalculationOption::kSetupMotion:
\* latches the direction, waits dir_delay, and leaves the distance in
\* relative_microsteps_to_move_ (the caller's assignment of the result).
CalculateRelativeMicrostepsToMoveByAngle(s, angle_h, motion_type) ==
  LET rel == RelativeAngleMicrosteps(s, angle_h, motion_type)
      s1 == IF rel < 0
            THEN [s EXCEPT !.angular_position_updater_microsteps_ = -1,
                           !.dir_pin = "LOW"]
            ELSE IF rel > 0
            THEN [s EXCEPT !.angular_position_updater_microsteps_ = 1,
                           !.dir_pin = "HIGH"]
            ELSE s
      s2 == delayMicroseconds(s1, DirDelay)
  IN [s2 EXCEPT !.relative_microsteps_to_move_ = Abs(rel)]

\* Mutant of MoveByMicrostep: the position is incremented whatever the latched
\* direction.
MoveByMicrostepAlwaysForward(s) ==
  LET s1 == delayMicroseconds(delayMicroseconds(s, PulDelay), PulDelay)
  IN [s1 EXCEPT
        !.pulsed = TRUE,
        !.pulse_total = IF s.pulse_total = -1 THEN -1
                        ELSE Min2(s.pulse_total + 1, TotalCap),
        !.relative_microsteps_to_move_ =
            IF s.relative_microsteps_to_move_ # 0
            THEN s.relative_microsteps_to_move_ - 1
            ELSE 0,
        !.angular_position_microsteps_ = s.angular_position_microsteps_ + 1]

\* MoveByMicrostep: one pulse on the pulse pin, then the bookkeeping.
MoveByMicrostep(s) ==
  LET s1 == delayMicroseconds(delayMicroseconds(s, PulDelay), PulDelay)
  IN [s1 EXCEPT
        !.pulsed = TRUE,
        !.pulse_total = IF s.pulse_total = -1 THEN -1
                        ELSE Min2(s.pulse_total + 1, TotalCap),
        !.relative_microsteps_to_move_ =
            IF s.relative_microsteps_to_move_ # 0
            THEN s.relative_microsteps_to_move_ - 1
            ELSE 0,
        !.angular_position_microsteps_ =
            s.angular_position_microsteps_ + s.angular_position_updater_microsteps_]

\* micros() - reference_microstep_time_us: the reference is a uint64_t, so the
\* 32 bit counter is widened and the difference wraps at 2^64, not at 2^32.
ElapsedMicros(now, reference) == (now - reference) % WideMod

\* MoveByMicrostepAtMicrostepPeriod: the static reference is initialised by the
\* first call; a pulse is emitted when the measured time reaches the period.
MoveByMicrostepAtMicrostepPeriod(s, operating_microstep_period_us) ==
  LET s1 == IF s.reference_microstep_time_us = -1
            THEN [s EXCEPT !.reference_microstep_time_us = s.now_us]
            ELSE s
  IN IF ElapsedMicros(s1.now_us, s1.reference_microstep_time_us)
          >= operating_microstep_period_us
     THEN LET s2 == MoveByMicrostep(s1)
          IN [s2 EXCEPT !.reference_microstep_time_us = s2.now_us,
                        !.pulse_gap = IF s1.since_pulse = -2 THEN -1 ELSE s1.since_pulse,
                        !.since_pulse = IF s1.since_pulse = -2 THEN -2 ELSE 0]
     ELSE s1

\* Mutant of ForcedMotionType: a disabled driver is paused, not stopped and reset.
ForcedMotionTypePauseWhenDisabled(s, motion_type) ==
  IF s.power_state_ = "Disabled" THEN "Pause"
  ELSE IF s.microstep_period_us_ = 0 THEN "Pause"
  ELSE motion_type

\* Mutant of ForcedMotionType: zero speed does not override the request.
ForcedMotionTypeNoZeroSpeed(s, motion_type) ==
  IF s.power_state_ = "Disabled" THEN "StopAndReset"
  ELSE motion_type

\* MoveByAngle, lines 151-157: the overrides of the requested motion type.
ForcedMotionType(s, motion_type) ==
  IF s.power_state_ = "Disabled" THEN "StopAndReset"
  ELSE IF s.microstep_period_us_ = 0 THEN "Pause"
  ELSE motion_type

\* Mutant of ApplyMotionType: StopAndReset leaves the distance-to-go.
ApplyMotionTypeKeepDistance(s, angle_h, motion_type) ==
  CASE motion_type = "StopAndReset" ->
         [s EXCEPT !.microsteps_after_acceleration = 0,
                   !.microsteps_after_constant_speed = 0,
                   !.motion_status = "Idle"]
    [] motion_type = "Pause" ->
         [s EXCEPT !.motion_status = "Paused"]
    [] OTHER ->
         IF s.motion_status \in {"Idle", "Paused"}
         THEN LET s1 == IF s.motion_status = "Idle"
                        THEN CalculateRelativeMicrostepsToMoveByAngle(
                               s, angle_h, motion_type)
                        ELSE s
              IN [s1 EXCEPT !.microsteps_after_acceleration = 0,
                            !.microsteps_after_constant_speed = 0,
                            !.motion_status = "Accelerate"]
         ELSE s

\* Mutant of ApplyMotionType: the distance is calculated anew by every poll
\* that asks for motion, a move in progress or not.
ApplyMotionTypeRecalculateMidMove(s, angle_h, motion_type) ==
  CASE motion_type = "StopAndReset" ->
         [s EXCEPT !.relative_microsteps_to_move_ = 0,
                   !.microsteps_after_acceleration = 0,
                   !.microsteps_after_constant_speed = 0,
                   !.motion_status = "Idle"]
    [] motion_type = "Pause" ->
         [s EXCEPT !.motion_status = "Paused"]
    [] OTHER ->
         LET s1 == IF s.motion_status # "Paused"
                   THEN CalculateRelativeMicrostepsToMoveByAngle(
                          s, angle_h, motion_type)
                   ELSE s
         IN IF s.motion_status \in {"Idle", "Paused"}
            THEN [s1 EXCEPT !.microsteps_after_acceleration = 0,
                            !.microsteps_after_constant_speed = 0,
                            !.motion_status = "Accelerate"]
            ELSE s1

\* Mutant of ApplyMotionType: the distance is calculated anew when a paused
\* move is continued.
ApplyMotionTypeRecalculateOnResume(s, angle_h, motion_type) ==
  CASE motion_type = "StopAndReset" ->
         [s EXCEPT !.relative_microsteps_to_move_ = 0,
                   !.microsteps_after_acceleration = 0,
                   !.microsteps_after_constant_speed = 0,
                   !.motion_status = "Idle"]
    [] motion_type = "Pause" ->
         [s EXCEPT !.motion_status = "Paused"]
    [] OTHER ->
         IF s.motion_status \in {"Idle", "Paused"}
         THEN LET s1 == CalculateRelativeMicrostepsToMoveByAngle(
                          s, angle_h, motion_type)
              IN [s1 EXCEPT !.microsteps_after_acceleration = 0,
                            !.microsteps_after_constant_speed = 0,
                            !.motion_status = "Accelerate"]
         ELSE s

\* MoveByAngle, lines 159-192: the switch on the motion type.
ApplyMotionType(s, angle_h, motion_type) ==
  CASE motion_type = "StopAndReset" ->
         [s EXCEPT !.relative_microsteps_to_move_ = 0,
                   !.microsteps_after_acceleration = 0,
                   !.microsteps_after_constant_speed = 0,
                   !.motion_status = "Idle"]
    [] motion_type = "Pause" ->
         [s EXCEPT !.motion_status = "Paused"]
    [] OTHER ->
         IF s.motion_status \in {"Idle", "Paused"}
         THEN LET s1 == IF s.motion_status = "Idle"
                        THEN CalculateRelativeMicrostepsToMoveByAngle(
                               s, angle_h, motion_type)
                        ELSE s
              IN [s1 EXCEPT !.microsteps_after_acceleration = 0,
                            !.microsteps_after_constant_speed = 0,
                            !.motion_status = "Accelerate"]
         ELSE s

\* MoveByAngle, line 209: the double quotient converted to uint64_t.
MinMicrostepsForAcceleration(s) ==
  s.speed_period_us_
    \div (2000000 * s.microstep_period_us_ * s.microstep_period_us_)

\* MoveByAngle, lines 201-238: case kAccelerate.
AccelerateStep(s) ==
  IF s.speed_period_us_ = 0
  THEN [s EXCEPT !.motion_status = "ConstantSpeed"]
  ELSE IF s.microsteps_after_acceleration = 0
  THEN LET min_microsteps_for_acceleration == MinMicrostepsForAcceleration(s)
       IN IF s.relative_microsteps_to_move_ <= 2 * min_microsteps_for_acceleration
          THEN [s EXCEPT !.microsteps_after_acceleration =
                           s.relative_microsteps_to_move_ \div 2]
          ELSE [s EXCEPT !.microsteps_after_acceleration =
                           s.relative_microsteps_to_move_ - min_microsteps_for_acceleration,
                         !.microsteps_after_constant_speed =
                           min_microsteps_for_acceleration]
  ELSE IF s.relative_microsteps_to_move_ <= s.microsteps_after_acceleration
  THEN IF s.microsteps_after_constant_speed = 0
       THEN [s EXCEPT !.motion_status = "Decelerate"]
       ELSE [s EXCEPT !.motion_status = "ConstantSpeed"]
  ELSE s

\* MoveByAngle, lines 239-260: case kConstantSpeed.
ConstantSpeedStep(s) ==
  IF s.speed_period_us_ = 0
  THEN IF s.relative_microsteps_to_move_ = 0
       THEN [s EXCEPT !.motion_status = "Idle"]
       ELSE MoveByMicrostepAtMicrostepPeriod(s, s.microstep_period_us_)
  ELSE IF s.microsteps_after_constant_speed # 0
  THEN IF s.relative_microsteps_to_move_ <= s.microsteps_after_constant_speed
       THEN [s EXCEPT !.motion_status = "Decelerate"]
       ELSE MoveByMicrostepAtMicrostepPeriod(s, s.microstep_period_us_)
  ELSE s

\* MoveByAngle, lines 261-270: case kDecelerate.
DecelerateStep(s) ==
  IF s.relative_microsteps_to_move_ = 0
  THEN [s EXCEPT !.motion_status = "Idle"]
  ELSE s

\* MoveByAngle, lines 194-271: the switch on the motion status.
RunMotionStatus(s) ==
  CASE s.motion_status = "Accelerate" -> AccelerateStep(s)
    [] s.motion_status = "ConstantSpeed" -> ConstantSpeedStep(s)
    [] s.motion_status = "Decelerate" -> DecelerateStep(s)
    [] OTHER -> s

\* MoveByAngle: one poll.  The value returned is the motion_status it leaves.
MoveByAngle(s, angle_h, motion_type) ==
  RunMotionStatus(ApplyMotionType(s, angle_h, ForcedMotionType(s, motion_type)))

\* MoveByJogging, lines 281-293: a change of direction writes the direction pin.
SetJogDirection(s, direction) ==
  IF s.set_direction # direction
  THEN LET s1 == [s EXCEPT !.set_direction = direction,
                           !.dir_pin = CASE direction = "Negative" -> "LOW"
                                         [] direction = "Positive" -> "HIGH"
                                         [] OTHER -> s.dir_pin]
       IN delayMicroseconds(s1, DirDelay)
  ELSE s

\* Mutant of MoveByJogging: the power state is not looked at.
MoveByJoggingWhateverPower(s, direction) ==
  IF s.microstep_period_us_ = 0
  THEN s
  ELSE LET s1 == SetJogDirection(s, direction)
       IN IF direction = "Neutral"
          THEN s1
          ELSE MoveByMicrostepAtMicrostepPeriod(s1, s1.microstep_period_us_)

\* MoveByJogging: one poll.
MoveByJogging(s, direction) ==
  IF s.power_state_ = "Disabled" \/ s.microstep_period_us_ = 0
  THEN s
  ELSE LET s1 == SetJogDirection(s, direction)
       IN IF direction = "Neutral"
          THEN s1
          ELSE MoveByMicrostepAtMicrostepPeriod(s1, s1.microstep_period_us_)

\* SetSpeed with SpeedUnits::kMicrostepsPerSecond.
SpeedToMicrostepPeriod(speed) ==
  IF speed = 0 THEN 0 ELSE 1000000 \div speed

\* SetAcceleration with AccelerationUnits::kMicrostepsPerSecondPerSecond, the
\* acceleration given in thousandths.
AccelerationToSpeedPeriod(acceleration_milli) ==
  IF acceleration_milli = 0 THEN 0 ELSE 1000000000 \div acceleration_milli

\* set_power_state: writes the enable pin, then waits ena_delay.
set_power_state(s, power_state) ==
  delayMicroseconds([s EXCEPT !.power_state_ = power_state], EnaDelay)

\* A move is in progress: the status is not Idle and distance remains.
MoveInProgress ==
  /\ motion_status \in {"Accelerate", "ConstantSpeed", "Decelerate", "Paused"}
  /\ relative_microsteps_to_move_ > 0

\* The observer of a step that is no poll, and of a poll: its request, and
\* whether it found a move in progress.
NoPoll == [op |-> "none", arg |-> "none", mid |-> FALSE]
Poll(op, arg) == [op |-> op, arg |-> arg, mid |-> MoveInProgress]

\* The driver's variables take the record's values; c is the call made.
Commit(s, c) ==
  /\ power_state_' = s.power_state_
  /\ microstep_period_us_' = s.microstep_period_us_
  /\ speed_period_us_' = s.speed_period_us_
  /\ relative_microsteps_to_move_' = s.relative_microsteps_to_move_
  /\ angular_position_microsteps_' = s.angular_position_microsteps_
  /\ angular_position_updater_microsteps_' = s.angular_position_updater_microsteps_
  /\ microsteps_after_acceleration' = s.microsteps_after_acceleration
  /\ microsteps_after_constant_speed' = s.microsteps_after_constant_speed
  /\ motion_status' = s.motion_status
  /\ set_direction' = s.set_direction
  /\ reference_microstep_time_us' = s.reference_microstep_time_us
  /\ dir_pin' = s.dir_pin
  /\ now_us' = s.now_us
  /\ pulsed' = s.pulsed
  /\ pulse_gap' = s.pulse_gap
  /\ since_pulse' = s.since_pulse
  /\ pulse_total' = s.pulse_total
  /\ paused_at' = s.paused_at
  /\ resumed_at' = s.resumed_at
  /\ call' = c
  /\ UNCHANGED << obs_start, obs_target >>
  /\ UNCHANGED buttonVars

\* ---------------------------------------------------------------- actions
\* The microsecond counter advances between two calls.
TickMicros ==
  Commit(Elapse(DriverState, 1), NoPoll)

PowerCall ==
  \E power_state \in {"Enabled", "Disabled"} :
    Commit(set_power_state(DriverState, power_state),
           NoPoll)

SpeedCall ==
  \E speed \in Speeds :
    Commit([DriverState EXCEPT !.microstep_period_us_ = SpeedToMicrostepPeriod(speed)],
           NoPoll)

AccelerationCall ==
  \E acceleration_milli \in AccelerationsMilli :
    Commit([DriverState EXCEPT
              !.speed_period_us_ = AccelerationToSpeedPeriod(acceleration_milli)],
           NoPoll)

\* The position the request asks for stays in the modelled range.
RequestInRange(angle_h, motion_type) ==
  CASE motion_type = "Absolute" -> Round(angle_h) \in PosRange
    [] motion_type = "Relative" ->
         angular_position_microsteps_ + Truncate(angle_h) \in PosRange
    [] OTHER -> angle_h = 0

MoveCall ==
  \E angle_h \in HalfAngles, motion_type \in MotionTypes :
    /\ RequestInRange(angle_h, motion_type)
    /\ Commit(MoveByAngle(DriverState, angle_h, motion_type),
              Poll("MoveByAngle", motion_type))

\* A jog pulse keeps the position in the modelled range.
JogCall ==
  \E direction \in Directions :
    /\ angular_position_microsteps_ + angular_position_updater_microsteps_ \in PosRange
    /\ Commit(MoveByJogging(DriverState, direction),
              Poll("MoveByJogging", direction))

\* The driver after construction.  The in-class initialisers of the fields
\* are in the header; the angular position starts at the zero reference, and
\* the power state, the speed, the ramp and the position updater may hold any
\* value a constructed driver can be configured with.
InitDriverFields ==
  /\ power_state_ \in {"Enabled", "Disabled"}
  /\ microstep_period_us_ \in {SpeedToMicrostepPeriod(v) : v \in Speeds}
  /\ speed_period_us_ \in {AccelerationToSpeedPeriod(a) : a \in AccelerationsMilli}
  /\ relative_microsteps_to_move_ = 0
  /\ angular_position_updater_microsteps_ \in {-1, 0, 1}
  /\ microsteps_after_acceleration = 0
  /\ microsteps_after_constant_speed = 0
  /\ motion_status = "Idle"
  /\ set_direction = "Neutral"
  /\ reference_microstep_time_us = -1
  /\ dir_pin = "LOW"
  /\ now_us = 0
  /\ call = NoPoll
  /\ pulsed = FALSE
  /\ pulse_gap = -1
  /\ paused_at = -1
  /\ resumed_at = -1

InitDriver ==
  /\ InitDriverFields
  /\ angular_position_microsteps_ = 0
  /\ since_pulse = -1
  /\ pulse_total = -1
  /\ obs_start = 0
  /\ obs_target = 0

\* The same, the time between pulses not being observed.
InitMotion ==
  /\ InitDriverFields
  /\ angular_position_microsteps_ = 0
  /\ since_pulse = -2
  /\ pulse_total = -1
  /\ obs_start = 0
  /\ obs_target = 0

\* The button after construction: the periods are constructor arguments,
\* ordered as they are used (debounce < multiple press window < long press);
\* the statics hold their initial values and the pin is unpressed.
InitButtonFields ==
  /\ unpressed_pin_state_ \in {"LOW", "HIGH"}
  /\ debounce_period_ \in 1..MaxDebounce
  /\ multiple_press_period_ = debounce_period_ + 1
  /\ long_press_period_ = multiple_press_period_ + 1
  /\ press_counter = 0
  /\ long_press = FALSE
  /\ waiting_for_long_press = FALSE
  /\ waiting_for_press = TRUE
  /\ waiting_for_release = FALSE
  /\ debouncing = "NotStarted"
  /\ previous_button_press_time = -1
  /\ debounce_status = "NotStarted"
  /\ debouncing_a_press = FALSE
  /\ status = "NotStarted"
  /\ reference_debounce_time = -1
  /\ gpio_level = unpressed_pin_state_
  /\ now_ms = 0
  /\ press_type_out = "NoPress"
  /\ press_count_output = 0
  /\ button_state_out = "NoChange"
  /\ finish_gap = -1
  /\ since_finish = -1
  /\ hold_ms = -1
  /\ release_ms = -1
  /\ hold_at_release = -1
  /\ unpolled = FALSE
  /\ polled = FALSE
  /\ long_returns = 0
  /\ single_returns = 0
  /\ multiple_returns = 0
  /\ balance = 0
  /\ changes = 0

\* Bursts of presses are not observed.
InitButton ==
  /\ InitButtonFields
  /\ burst = -1

\* Bursts of presses are observed.
InitBurst ==
  /\ InitButtonFields
  /\ unpressed_pin_state_ = "HIGH"
  /\ burst = 0

\* The button is not polled while the driver is checked.
InitButtonIdle ==
  /\ InitButton
  /\ unpressed_pin_state_ = "HIGH"
  /\ debounce_period_ = 1

NextDriver ==
  \/ TickMicros
  \/ PowerCall
  \/ SpeedCall
  \/ AccelerationCall
  \/ MoveCall
  \/ JogCall

\* The driver under every interleaving of its calls and of the clock.
InitSpecDriver == InitDriver /\ InitButtonIdle
SpecDriver == InitSpecDriver /\ [][NextDriver]_vars

\* The same, the time between pulses not being observed.
InitSpecMotion == InitMotion /\ InitButtonIdle
SpecMotion == InitSpecMotion /\ [][NextDriver]_vars

\* ------------------------------------------- one absolute move, observed
\* A driver that is Idle at any position, enabled, with a non-zero speed and no
\* ramp; the caller polls MoveByAngle(obs_target, microsteps, Absolute) and
\* nothing else while the clock advances.
InitAbsolute ==
  /\ InitDriverFields
  /\ power_state_ = "Enabled"
  /\ microstep_period_us_ # 0
  /\ speed_period_us_ = 0
  /\ angular_position_microsteps_ \in PosRange
  /\ obs_start = angular_position_microsteps_
  /\ obs_target \in PosRange
  /\ pulse_total = 0
  /\ since_pulse = -2

AbsolutePoll ==
  Commit(MoveByAngle(DriverState, 2 * obs_target, "Absolute"),
         Poll("MoveByAngle", "Absolute"))

NextAbsolute ==
  \/ TickMicros
  \/ AbsolutePoll

\* A poll that finds a pulse due and emits it.
AbsolutePollPulsing == AbsolutePoll /\ pulsed'

\* The host loop keeps polling and the clock keeps advancing.  The loop polls
\* many times in one wrap of the microsecond counter, so its polls do not miss
\* for ever the times at which a pulse is due.
InitSpecAbsolute == InitAbsolute /\ InitButtonIdle
SpecAbsolute ==
  /\ InitSpecAbsolute
  /\ [][NextAbsolute]_vars
  /\ WF_vars(TickMicros)
  /\ WF_vars(AbsolutePoll)
  /\ SF_vars(AbsolutePollPulsing)

\* ------------------------------- one absolute move, paused and resumed
\* The caller polls the absolute move until it pauses it.
AbsolutePollUnpaused ==
  /\ paused_at = -1
  /\ AbsolutePoll

\* The caller interrupts the move in progress with a Pause poll.
PausePoll ==
  /\ MoveInProgress
  /\ Commit([MoveByAngle(DriverState, 0, "Pause") EXCEPT
               !.paused_at = IF paused_at = -1
                             THEN relative_microsteps_to_move_
                             ELSE paused_at],
            Poll("MoveByAngle", "Pause"))

\* The caller continues the paused move with Resume polls, until Idle is
\* returned.
ResumePoll ==
  /\ paused_at # -1
  /\ motion_status # "Idle"
  /\ Commit([MoveByAngle(DriverState, 0, "Resume") EXCEPT
               !.resumed_at = IF resumed_at = -1
                              THEN relative_microsteps_to_move_
                              ELSE resumed_at],
            Poll("MoveByAngle", "Resume"))

NextPause ==
  \/ TickMicros
  \/ AbsolutePollUnpaused
  \/ PausePoll
  \/ ResumePoll

\* As SpecAbsolute, the caller also pausing and resuming the move.
InitSpecPause == InitAbsolute /\ InitButtonIdle
SpecPause == InitSpecPause /\ [][NextPause]_vars

\* ------------------------------------- one absolute move with a ramp set
\* SetAcceleration inputs that set a ramp, in thousandths of a microstep per
\* second per second: at the period of 2 us the minimum ramp is 1 microstep
\* for the first and 0 for the second.
RampAccelerationsMilli == {125, 250}

\* A driver that is Idle at any position, enabled, with a non-zero speed and a
\* ramp; the caller polls MoveByAngle(obs_target, microsteps, Absolute) and
\* nothing else while the clock advances.
InitRamp ==
  /\ power_state_ = "Enabled"
  /\ microstep_period_us_ \in {SpeedToMicrostepPeriod(v) : v \in Speeds \ {0}}
  /\ speed_period_us_ \in {AccelerationToSpeedPeriod(a) : a \in RampAccelerationsMilli}
  /\ relative_microsteps_to_move_ = 0
  /\ angular_position_microsteps_ \in PosRange
  /\ angular_position_updater_microsteps_ \in {-1, 0, 1}
  /\ microsteps_after_acceleration = 0
  /\ microsteps_after_constant_speed = 0
  /\ motion_status = "Idle"
  /\ set_direction = "Neutral"
  /\ reference_microstep_time_us = -1
  /\ dir_pin = "LOW"
  /\ now_us = 0
  /\ call = NoPoll
  /\ pulsed = FALSE
  /\ pulse_gap = -1
  /\ paused_at = -1
  /\ resumed_at = -1
  /\ since_pulse = -2
  /\ pulse_total = 0
  /\ obs_start = angular_position_microsteps_
  /\ obs_target \in PosRange

InitSpecRamp == InitRamp /\ InitButtonIdle

\* The host loop keeps polling the same absolute move and the clock keeps
\* advancing.
SpecRamp ==
  /\ InitSpecRamp
  /\ [][NextAbsolute]_vars
  /\ WF_vars(TickMicros)
  /\ WF_vars(AbsolutePoll)
  /\ SF_vars(AbsolutePollPulsing)

\* --------------------------------------------- jogging after a finished move
\* A driver that has finished a move in either direction: Idle, the direction
\* of that move still latched in the position updater and on the direction
\* pin, the pulse reference stamped by its last pulse.  The caller jogs while
\* the clock advances.
InitAfterMove ==
  /\ power_state_ = "Enabled"
  /\ microstep_period_us_ \in {SpeedToMicrostepPeriod(v) : v \in Speeds \ {0}}
  /\ speed_period_us_ = 0
  /\ relative_microsteps_to_move_ = 0
  /\ angular_position_microsteps_ \in PosRange
  /\ angular_position_updater_microsteps_ \in {-1, 1}
  /\ dir_pin = IF angular_position_updater_microsteps_ = 1 THEN "HIGH" ELSE "LOW"
  /\ microsteps_after_acceleration = 0
  /\ microsteps_after_constant_speed = 0
  /\ motion_status = "Idle"
  /\ set_direction = "Neutral"
  /\ reference_microstep_time_us \in 0..(ClockMod - 1)
  /\ now_us \in 0..(ClockMod - 1)
  /\ call = NoPoll
  /\ pulsed = FALSE
  /\ pulse_gap = -1
  /\ paused_at = -1
  /\ resumed_at = -1
  /\ since_pulse = -2
  /\ pulse_total = -1
  /\ obs_start = 0
  /\ obs_target = 0

NextJog ==
  \/ TickMicros
  \/ JogCall

InitSpecJog == InitAfterMove /\ InitButtonIdle
SpecJog == InitSpecJog /\ [][NextJog]_vars

\* ==================================================== momentary button
\* The button's fields and statics as one record.  finish_gap starts each
\* call cleared.
ButtonState ==
  [ unpressed_pin_state_ |-> unpressed_pin_state_,
    debounce_period_ |-> debounce_period_,
    multiple_press_period_ |-> multiple_press_period_,
    long_press_period_ |-> long_press_period_,
    press_counter |-> press_counter,
    long_press |-> long_press,
    waiting_for_long_press |-> waiting_for_long_press,
    waiting_for_press |-> waiting_for_press,
    waiting_for_release |-> waiting_for_release,
    debouncing |-> debouncing,
    previous_button_press_time |-> previous_button_press_time,
    debounce_status |-> debounce_status,
    debouncing_a_press |-> debouncing_a_press,
    status |-> status,
    reference_debounce_time |-> reference_debounce_time,
    gpio_level |-> gpio_level,
    now_ms |-> now_ms,
    press_type_out |-> press_type_out,
    press_count_output |-> press_count_output,
    button_state_out |-> button_state_out,
    finish_gap |-> -1,
    since_finish |-> since_finish,
    hold_ms |-> hold_ms,
    release_ms |-> release_ms,
    hold_at_release |-> hold_at_release,
    unpolled |-> unpolled,
    polled |-> polled,
    long_returns |-> long_returns,
    single_returns |-> single_returns,
    burst |-> burst,
    multiple_returns |-> multiple_returns,
    balance |-> balance,
    changes |-> changes ]

\* millis() - reference in uint32_t arithmetic.
ElapsedMillis(now, reference) == (now - reference) % MillisMod

\* DebounceButton.  The static reference time is initialised by the first call
\* and never assigned again.  A call that leaves status NotStarted reports
\* 'debouncing finished'.
DebounceButton(b) ==
  LET b1 == IF b.reference_debounce_time = -1
            THEN [b EXCEPT !.reference_debounce_time = b.now_ms]
            ELSE b
      b2 == IF b1.status = "NotStarted" THEN [b1 EXCEPT !.status = "Ongoing"] ELSE b1
      b3 == IF /\ b2.status = "Ongoing"
               /\ ElapsedMillis(b2.now_ms, b2.reference_debounce_time) > b2.debounce_period_
            THEN [b2 EXCEPT !.status = "NotStarted"]
            ELSE b2
  IN IF b3.status = "NotStarted"
     THEN [b3 EXCEPT !.finish_gap = b.since_finish, !.since_finish = 0]
     ELSE b3

\* digitalRead(gpio_pin_) compared with the unpressed level.
PinPressed(b) == b.gpio_level # b.unpressed_pin_state_

\* IsPressed: the chain of branches after the call of DebounceButton.
IsPressedBranches(b) ==
  IF b.waiting_for_release /\ b.debouncing = "NotStarted"
  THEN [b EXCEPT !.waiting_for_press = TRUE]
  ELSE IF b.waiting_for_press /\ b.debouncing = "Ongoing"
  THEN [b EXCEPT !.press_counter = (b.press_counter + 1) % 256,
                 !.waiting_for_press = FALSE]
  ELSE IF ~b.waiting_for_press /\ b.debouncing = "NotStarted"
  THEN [b EXCEPT !.waiting_for_long_press = PinPressed(b),
                 !.waiting_for_press = ~PinPressed(b),
                 !.previous_button_press_time = b.now_ms]
  ELSE IF b.waiting_for_long_press
  THEN IF /\ PinPressed(b)
          /\ ElapsedMillis(b.now_ms, b.previous_button_press_time) > b.long_press_period_
       THEN [b EXCEPT !.long_press = TRUE,
                      !.waiting_for_release = TRUE,
                      !.waiting_for_long_press = FALSE]
       ELSE IF ~PinPressed(b)
       THEN [b EXCEPT !.waiting_for_long_press = FALSE,
                      !.waiting_for_press = TRUE]
       ELSE b
  ELSE IF /\ b.waiting_for_press
          /\ ElapsedMillis(b.now_ms, b.previous_button_press_time) > b.multiple_press_period_
  THEN [b EXCEPT !.press_count_output = b.press_counter,
                 !.press_counter = 0]
  ELSE b

\* IsPressed, the switch on press_count_output: each case of the switch declares a press_type of
\* its own, so the press_type of line 33 that is returned stays kNoPress; the
\* switch still clears long_press.
IsPressedSwitch(b) ==
  [b EXCEPT !.long_press = IF b.press_count_output = 1 THEN FALSE ELSE b.long_press,
            !.press_type_out = "NoPress"]

\* The observers of a returned press type.
CountReturn(b) ==
  [b EXCEPT !.polled = TRUE,
            !.long_returns = IF b.press_type_out = "LongPress"
                             THEN Min2(b.long_returns + 1, 2) ELSE b.long_returns,
            !.single_returns = IF b.press_type_out = "SinglePress"
                               THEN Min2(b.single_returns + 1, 2) ELSE b.single_returns,
            !.multiple_returns = IF /\ b.press_type_out = "MultiplePress"
                                    /\ b.press_count_output = b.burst
                                 THEN Min2(b.multiple_returns + 1, 2)
                                 ELSE b.multiple_returns]

\* IsPressed: one poll.
IsPressed(b) ==
  LET b1 == IF b.previous_button_press_time = -1
            THEN [b EXCEPT !.previous_button_press_time = b.now_ms]
            ELSE b
      b2 == [b1 EXCEPT !.press_count_output = 0]
      b3 == DebounceButton(b2)
      b4 == [b3 EXCEPT !.debouncing = b3.status]
  IN CountReturn(IsPressedSwitch(IsPressedBranches(b4)))

\* Mutant of DetectButtonStateChange: a press is reported without being
\* remembered.
DetectButtonStateChangeForgetsPress(b) ==
  IF b.debounce_status = "NotStarted" /\ ~b.debouncing_a_press
  THEN IF PinPressed(b)
       THEN LET b1 == DebounceButton(b)
            IN [b1 EXCEPT !.button_state_out = "Pressed",
                          !.debounce_status = b1.status]
       ELSE [b EXCEPT !.button_state_out = "NoChange"]
  ELSE IF b.debounce_status = "NotStarted" /\ b.debouncing_a_press
  THEN IF ~PinPressed(b)
       THEN LET b1 == DebounceButton(b)
            IN [b1 EXCEPT !.button_state_out = "Released",
                          !.debouncing_a_press = FALSE,
                          !.debounce_status = b1.status]
       ELSE [b EXCEPT !.button_state_out = "NoChange"]
  ELSE LET b1 == DebounceButton(b)
       IN [b1 EXCEPT !.button_state_out = "NoChange",
                     !.debounce_status = b1.status]

\* DetectButtonStateChange: one poll.
DetectButtonStateChange(b) ==
  IF b.debounce_status = "NotStarted" /\ ~b.debouncing_a_press
  THEN IF PinPressed(b)
       THEN LET b1 == DebounceButton(b)
            IN [b1 EXCEPT !.button_state_out = "Pressed",
                          !.debouncing_a_press = TRUE,
                          !.debounce_status = b1.status]
       ELSE [b EXCEPT !.button_state_out = "NoChange"]
  ELSE IF b.debounce_status = "NotStarted" /\ b.debouncing_a_press
  THEN IF ~PinPressed(b)
       THEN LET b1 == DebounceButton(b)
            IN [b1 EXCEPT !.button_state_out = "Released",
                          !.debouncing_a_press = FALSE,
                          !.debounce_status = b1.status]
       ELSE [b EXCEPT !.button_state_out = "NoChange"]
  ELSE LET b1 == DebounceButton(b)
       IN [b1 EXCEPT !.button_state_out = "NoChange",
                     !.debounce_status = b1.status]

\* The observers of a returned change of state.
CountChange(b) ==
  CASE b.button_state_out = "Pressed" ->
         [b EXCEPT !.balance = Min2(b.balance + 1, 2),
                   !.changes = Min2(b.changes + 1, 3)]
    [] b.button_state_out = "Released" ->
         [b EXCEPT !.balance = IF b.balance > -1 THEN b.balance - 1 ELSE -1,
                   !.changes = Min2(b.changes + 1, 3)]
    [] OTHER -> b

\* The button's variables take the record's values.
CommitButton(b) ==
  /\ unpressed_pin_state_' = b.unpressed_pin_state_
  /\ debounce_period_' = b.debounce_period_
  /\ multiple_press_period_' = b.multiple_press_period_
  /\ long_press_period_' = b.long_press_period_
  /\ press_counter' = b.press_counter
  /\ long_press' = b.long_press
  /\ waiting_for_long_press' = b.waiting_for_long_press
  /\ waiting_for_press' = b.waiting_for_press
  /\ waiting_for_release' = b.waiting_for_release
  /\ debouncing' = b.debouncing
  /\ previous_button_press_time' = b.previous_button_press_time
  /\ debounce_status' = b.debounce_status
  /\ debouncing_a_press' = b.debouncing_a_press
  /\ status' = b.status
  /\ reference_debounce_time' = b.reference_debounce_time
  /\ gpio_level' = b.gpio_level
  /\ now_ms' = b.now_ms
  /\ press_type_out' = b.press_type_out
  /\ press_count_output' = b.press_count_output
  /\ button_state_out' = b.button_state_out
  /\ finish_gap' = b.finish_gap
  /\ since_finish' = b.since_finish
  /\ hold_ms' = b.hold_ms
  /\ release_ms' = b.release_ms
  /\ hold_at_release' = b.hold_at_release
  /\ unpolled' = b.unpolled
  /\ polled' = b.polled
  /\ long_returns' = b.long_returns
  /\ single_returns' = b.single_returns
  /\ burst' = b.burst
  /\ multiple_returns' = b.multiple_returns
  /\ balance' = b.balance
  /\ changes' = b.changes
  /\ UNCHANGED driverVars

Saturate(x, d) == IF x < 0 THEN x ELSE Min2(x + d, MillisCap)

\* ---------------------------------------------------------------- actions
\* The millisecond counter advances between two polls.
TickMillis ==
  CommitButton([ButtonState EXCEPT
    !.now_ms = (now_ms + 1) % MillisMod,
    !.since_finish = Saturate(since_finish, 1),
    !.hold_ms = IF gpio_level # unpressed_pin_state_ THEN Saturate(hold_ms, 1) ELSE hold_ms,
    !.release_ms = Saturate(release_ms, 1),
    !.unpolled = unpolled \/ (hold_ms >= 0 /\ ~polled),
    !.polled = FALSE])

\* Where bursts are observed: the press that begins now continues the burst,
\* the press before it having lasted the debounce period and begun no longer
\* ago than the multiple press window, and a poll having read the pin
\* unpressed in between.
ContinuesBurst ==
  /\ burst >= 1
  /\ release_ms >= 1
  /\ polled
  /\ hold_at_release >= debounce_period_
  /\ hold_at_release + release_ms <= multiple_press_period_

\* The pin is pressed: a press begins.  Its observers start afresh, unless it
\* continues an observed burst.
PressPin ==
  /\ gpio_level = unpressed_pin_state_
  /\ CommitButton([ButtonState EXCEPT
       !.gpio_level = IF unpressed_pin_state_ = "HIGH" THEN "LOW" ELSE "HIGH",
       !.hold_ms = 0, !.release_ms = -1, !.hold_at_release = -1,
       !.burst = IF burst = -1 THEN -1
                 ELSE IF ContinuesBurst THEN Min2(burst + 1, MaxPresses)
                 ELSE 1,
       !.unpolled = IF ContinuesBurst THEN unpolled ELSE FALSE,
       !.polled = FALSE,
       !.long_returns = IF ContinuesBurst THEN long_returns ELSE 0,
       !.single_returns = IF ContinuesBurst THEN single_returns ELSE 0,
       !.multiple_returns = IF ContinuesBurst THEN multiple_returns ELSE 0])

\* The pin is released.
ReleasePin ==
  /\ gpio_level # unpressed_pin_state_
  /\ CommitButton([ButtonState EXCEPT
       !.gpio_level = unpressed_pin_state_,
       !.release_ms = 0, !.hold_at_release = hold_ms])

IsPressedCall ==
  /\ press_counter < MaxPresses
  /\ CommitButton(IsPressed(ButtonState))

DetectCall ==
  CommitButton(CountChange(DetectButtonStateChange(ButtonState)))

\* The driver is not called while the button is checked.
InitDriverIdle ==
  /\ InitDriver
  /\ power_state_ = "Disabled"
  /\ microstep_period_us_ = 0
  /\ speed_period_us_ = 0
  /\ angular_position_updater_microsteps_ = 0

NextButton ==
  \/ TickMillis
  \/ PressPin
  \/ ReleasePin
  \/ IsPressedCall

\* A button read through IsPressed, under every sequence of pin levels and
\* poll times.
InitSpecButton == InitButton /\ InitDriverIdle
SpecButton == InitSpecButton /\ [][NextButton]_vars

\* A button read through IsPressed, with the bursts of presses observed.
InitSpecBurst == InitBurst /\ InitDriverIdle
SpecBurst == InitSpecBurst /\ [][NextButton]_vars

NextDetect ==
  \/ TickMillis
  \/ PressPin
  \/ ReleasePin
  \/ DetectCall

\* A button read through DetectButtonStateChange.
SpecDetect == InitSpecButton /\ [][NextDetect]_vars

\* ================================================== claims on the driver
\* The last step was a MoveByAngle poll.
MovePolled == call.op = "MoveByAngle"
\* The last step was a MoveByJogging poll.
JogPolled == call.op = "MoveByJogging"

\* C1: with ramp period 0, power enabled and a non-zero speed, from Idle at
\* position P and with no jog calls, polling move(T, Absolute) while the clock
\* advances emits exactly |T-P| pulses in total, reaches Idle, and the position
\* equals T when Idle is returned (also for T = P).
C1_AbsoluteMoveCompletes ==
  /\ [](pulse_total <= Abs(obs_target - obs_start))
  /\ []((MovePolled /\ motion_status = "Idle") =>
          /\ pulse_total = Abs(obs_target - obs_start)
          /\ angular_position_microsteps_ = obs_target)
  /\ <>(MovePolled /\ motion_status = "Idle")

\* A move over the longest distance in the negative direction has returned Idle.
C1_Witness ==
  /\ MovePolled /\ motion_status = "Idle"
  /\ obs_target = 0 - MaxPos /\ obs_start = MaxPos
  /\ pulse_total = 2 * MaxPos
  /\ angular_position_microsteps_ = obs_target

\* C2: no pulse is emitted while the power state is Disabled: a move or jog
\* poll made while disabled does not toggle the pulse pin and leaves the
\* angular position unchanged.
C2_NoPulseWhileDisabled ==
  [][(power_state_ = "Disabled" /\ call'.op \in {"MoveByAngle", "MoveByJogging"}) =>
       (~pulsed' /\ angular_position_microsteps_' = angular_position_microsteps_)]_vars

\* A jog poll was made while disabled with a move in progress, away from the origin.
C2_Witness ==
  /\ JogPolled /\ call.arg = "Positive" /\ call.mid
  /\ power_state_ = "Disabled"
  /\ microstep_period_us_ # 0
  /\ angular_position_microsteps_ # 0
  /\ ~pulsed

\* C3 as stated: in every reachable motion state, with any configured speed, a
\* move poll that requests StopAndReset zeroes the distance-to-go and returns
\* Idle, emitting no pulse.
C3_StopAndResetAlwaysIdle ==
  (MovePolled /\ call.arg = "StopAndReset") =>
    (relative_microsteps_to_move_ = 0 /\ motion_status = "Idle" /\ ~pulsed)

\* C3 as amended: the same, for a driver that is disabled or has a non-zero
\* speed; an enabled driver with zero speed is forced to Pause instead.
C3_StopAndResetIdleUnlessZeroSpeed ==
  (/\ MovePolled /\ call.arg = "StopAndReset"
   /\ (power_state_ = "Disabled" \/ microstep_period_us_ # 0)) =>
    (relative_microsteps_to_move_ = 0 /\ motion_status = "Idle" /\ ~pulsed)

\* StopAndReset was polled on an enabled, moving driver with a move in progress.
C3_Witness ==
  /\ MovePolled /\ call.arg = "StopAndReset" /\ call.mid
  /\ power_state_ = "Enabled" /\ microstep_period_us_ # 0
  /\ relative_microsteps_to_move_ = 0 /\ motion_status = "Idle"

\* C4: if power is disabled while a move is in progress, the next move poll,
\* whatever it requests, returns Idle with distance-to-go 0, and the angular
\* position does not change for as long as power remains disabled.
C4_DisableForcesIdle ==
  [][power_state_ = "Disabled" =>
       /\ angular_position_microsteps_' = angular_position_microsteps_
       /\ (call'.op = "MoveByAngle" =>
             (motion_status' = "Idle" /\ relative_microsteps_to_move_' = 0))]_vars

\* A Resume poll found a move in progress on a disabled driver.
C4_Witness ==
  /\ MovePolled /\ call.arg = "Resume" /\ call.mid
  /\ power_state_ = "Disabled"
  /\ motion_status = "Idle" /\ relative_microsteps_to_move_ = 0
  /\ angular_position_microsteps_ # 0

\* C5: with power enabled and the microstep period 0, every move poll, whatever
\* it requests, returns Paused, emits no pulse, and leaves distance-to-go and
\* angular position unchanged.
C5_ZeroSpeedPauses ==
  [][(/\ power_state_ = "Enabled" /\ microstep_period_us_ = 0
      /\ call'.op = "MoveByAngle") =>
       /\ motion_status' = "Paused"
       /\ ~pulsed'
       /\ relative_microsteps_to_move_' = relative_microsteps_to_move_
       /\ angular_position_microsteps_' = angular_position_microsteps_]_vars

\* StopAndReset was polled at zero speed with a move in progress: the move is
\* Paused and its distance is kept.
C5_Witness ==
  /\ MovePolled /\ call.arg = "StopAndReset" /\ call.mid
  /\ power_state_ = "Enabled" /\ microstep_period_us_ = 0
  /\ motion_status = "Paused" /\ relative_microsteps_to_move_ > 0

\* C6: two consecutive pulses are separated by at least the microstep period
\* in force at the later one, under any interleaving of move and jog polls.
C6_PulsesRateLimited ==
  (pulsed /\ pulse_gap >= 0) => pulse_gap >= microstep_period_us_

\* C7: with power enabled and a non-zero speed, every pulse emitted by
\* jog(Positive) increases the angular position by exactly 1 and every pulse
\* emitted by jog(Negative) decreases it by exactly 1, also after a move in the
\* opposite direction; jog(Neutral) emits no pulse and leaves the position
\* unchanged.
C7_JogFollowsRequestedDirection ==
  [][call'.op = "MoveByJogging" =>
       CASE call'.arg = "Positive" ->
              pulsed' => angular_position_microsteps_' = angular_position_microsteps_ + 1
         [] call'.arg = "Negative" ->
              pulsed' => angular_position_microsteps_' = angular_position_microsteps_ - 1
         [] OTHER ->
              ~pulsed' /\ angular_position_microsteps_' = angular_position_microsteps_]_vars

\* ================================================== claims on the button
\* C8: two 'debouncing finished' results of DebounceButton are never less than
\* debounce_period apart: whenever a call reports finished after an earlier
\* finished report, at least debounce_period milliseconds lie between the two.
C8_FinishedReportsSpaced ==
  finish_gap >= 0 => finish_gap >= debounce_period_

\* C9: a press held continuously for at least long_press_period (and the
\* debounce period before it) and polled on every millisecond has had exactly
\* one poll of IsPressed return LongPress while the pin is still held.
C9_LongPressReportedOnceWhileHeld ==
  ( /\ gpio_level # unpressed_pin_state_
    /\ hold_ms >= debounce_period_ + long_press_period_ + 2
    /\ ~unpolled
    /\ polled )
  => long_returns = 1

\* C10: a press held longer than the debounce period and shorter than
\* long_press_period, released and followed by no other press, polled on every
\* millisecond, has had exactly one poll of IsPressed return SinglePress, and
\* none return LongPress, once the multiple press window and a debounce period
\* have passed since the release.
C10_ShortPressReportedSingle ==
  ( /\ gpio_level = unpressed_pin_state_
    /\ hold_at_release > debounce_period_
    /\ hold_at_release < long_press_period_
    /\ release_ms >= multiple_press_period_ + debounce_period_ + 2
    /\ ~unpolled
    /\ polled )
  => (single_returns = 1 /\ long_returns = 0)

\* C11: two presses, each lasting at least the debounce period and less than
\* long_press_period, the second begun within multiple_press_period of the
\* first, polled on every millisecond and followed by no other press, have had
\* exactly one poll of IsPressed return MultiplePress with press count 2, and
\* none return SinglePress, once the multiple press window and a debounce
\* period have passed since the last release.
C11_BurstReportedMultiple ==
  ( /\ burst = 2
    /\ gpio_level = unpressed_pin_state_
    /\ hold_at_release >= debounce_period_
    /\ hold_at_release < long_press_period_
    /\ release_ms >= multiple_press_period_ + debounce_period_ + 2
    /\ ~unpolled
    /\ polled )
  => (multiple_returns = 1 /\ single_returns = 0)

\* ============================================ claims on moves with a ramp
\* C12: with a ramp configured, power enabled and a non-zero speed, a move of
\* any distance started from Idle and polled while the clock advances
\* eventually returns Idle with distance-to-go 0 (stated for the moves of a
\* distance that is not 0).
C12_RampMoveCompletes ==
  (obs_target # obs_start) =>
    <>(MovePolled /\ motion_status = "Idle" /\ relative_microsteps_to_move_ = 0)

\* C13: with a ramp configured, a move whose initial distance is greater than
\* twice the minimum ramp microsteps is in ConstantSpeed between Accelerate and
\* Decelerate: a poll takes the status from Accelerate to Decelerate only in a
\* move whose initial distance is at most twice the minimum.
C13_TrapezoidCruises ==
  [][(call'.op = "MoveByAngle" /\ motion_status = "Accelerate"
        /\ motion_status' = "Decelerate") =>
       Abs(obs_target - obs_start) <= 2 * MinMicrostepsForAcceleration(DriverState)]_vars

\* ======================================== claims on pause, resume and jog
\* C14: with ramp period 0 and no jog calls, in a move interrupted by Pause
\* polls and continued by Resume polls: no step made while Paused, and no Pause
\* poll, emits a pulse or changes distance-to-go or the position; distance-to-go
\* at the first Resume poll is what it was at the first Pause poll; and when
\* Idle is returned the pulses emitted equal the initial distance and the
\* position is the original target.
C14_PauseResumeKeepsMove ==
  /\ [][(motion_status = "Paused" \/ call'.arg = "Pause") =>
         /\ ~pulsed'
         /\ relative_microsteps_to_move_' = relative_microsteps_to_move_
         /\ angular_position_microsteps_' = angular_position_microsteps_]_vars
  /\ [](resumed_at # -1 => resumed_at = paused_at)
  /\ []((MovePolled /\ motion_status = "Idle") =>
          /\ pulse_total = Abs(obs_target - obs_start)
          /\ angular_position_microsteps_ = obs_target)

\* A move over the longest distance, paused after its first pulse and resumed,
\* has returned Idle at its target.
C14_Witness ==
  /\ MovePolled /\ call.arg = "Resume" /\ motion_status = "Idle"
  /\ paused_at = 2 * MaxPos - 1 /\ resumed_at = paused_at
  /\ Abs(obs_target - obs_start) = 2 * MaxPos
  /\ pulse_total = 2 * MaxPos
  /\ angular_position_microsteps_ = obs_target

\* C15: a jog call never changes the distance-to-go of the motion profile,
\* whatever the state (a move Paused with distance remaining included) and
\* the direction.
C15_JogKeepsDistance ==
  [][call'.op = "MoveByJogging" =>
       relative_microsteps_to_move_' = relative_microsteps_to_move_]_vars

\* C16: the pulse rate limit tolerates the wrap of the 32 bit microsecond
\* counter: a pulse allowed by a check made after the counter has wrapped
\* since the previous pulse (the time of the check, which is the reference
\* stamped at the previous pulse plus the true time since, has passed the
\* modulus) still comes no earlier than the microstep period after that pulse.
C16_WrapTolerated ==
  [][(/\ pulsed'
      /\ pulse_gap' >= 0
      /\ reference_microstep_time_us + pulse_gap' >= ClockMod) =>
       pulse_gap' >= microstep_period_us_']_vars

\* C17: the press counter is incremented only on a poll that reads the pin at
\* a level different from the unpressed level: as long as the pin has never
\* been pressed, the press counter is 0 and every poll of IsPressed outputs
\* press count 0.
C17_NoPressNoCount ==
  hold_ms = -1 => (press_counter = 0 /\ press_count_output = 0)

\* C18: while the motion status is Accelerate, ConstantSpeed or Decelerate, a
\* move poll of type Absolute, Relative or Resume, whatever its angle, does not
\* write the direction pin and does not change the sign of the position
\* updates, and does not recompute distance-to-go: with power enabled the
\* distance changes only by the pulse the poll emits.
C18_RequestIgnoredMidMove ==
  [][(/\ call'.op = "MoveByAngle"
      /\ call'.arg \in {"Absolute", "Relative", "Resume"}
      /\ motion_status \in {"Accelerate", "ConstantSpeed", "Decelerate"}) =>
       /\ dir_pin' = dir_pin
       /\ angular_position_updater_microsteps_' = angular_position_updater_microsteps_
       /\ power_state_ = "Enabled" =>
            relative_microsteps_to_move_' =
              relative_microsteps_to_move_ - (IF pulsed' THEN 1 ELSE 0)]_vars

\* A Resume poll, whose own distance would be 0, has found a move at constant
\* speed and left its distance-to-go and its direction in force.
C18_Witness ==
  /\ MovePolled /\ call.arg = "Resume" /\ call.mid
  /\ motion_status = "ConstantSpeed"
  /\ ~pulsed
  /\ relative_microsteps_to_move_ = 2 * MaxPos
  /\ angular_position_updater_microsteps_ = -1 /\ dir_pin = "LOW"

\* C19: at every pulse emitted by a move or a jog poll, the angular position
\* changes by +1 if the level last written to the direction pin is HIGH and
\* by -1 if it is LOW.
C19_PositionFollowsDirectionPin ==
  [][pulsed' =>
       angular_position_microsteps_' - angular_position_microsteps_ =
         (IF dir_pin' = "HIGH" THEN 1 ELSE -1)]_vars

\* C20: over any sequence of pin levels and poll times, the results of
\* DetectButtonStateChange other than NoChange alternate, starting with
\* Pressed: after every poll the Pressed results so far are as many as the
\* Released results, or one more; the last result is Pressed in the second
\* case and Released, or none, in the first.
C20_ChangesAlternate ==
  /\ balance \in {0, 1}
  /\ button_state_out = "Pressed" => balance = 1
  /\ button_state_out = "Released" => balance = 0

\* Pressed, Released and Pressed again have been returned.
C20_Witness ==
  /\ changes = 3
  /\ button_state_out = "Pressed"
  /\ balance = 1

====
